---- MODULE Spec2Model ----
(***************************************************************************)
(* A model of the mediax orchestration engine:                             *)
(*   - Job (packages/core/src/job.ts): one ffmpeg process, its state       *)
(*     machine, cancel and timeout;                                        *)
(*   - JobQueue (packages/core/src/index.ts): the bounded-concurrency      *)
(*     scheduler with retry and backoff;                                   *)
(*   - Pipeline (pipeline.ts): the workflow sequencer over the             *)
(*     fluent-ffmpeg Job (job.ts of the pipeline version).                 *)
(* Handlers run to completion (Node's single-threaded event loop), so one  *)
(* action is one handler with every listener it calls synchronously.       *)
(***************************************************************************)
EXTENDS Integers, Sequences, FiniteSets, TLC

\* ------------------------------------------------------------------ bounds
NJobs == 2
MaxRetries == 2
MaxProcErrors == 1
MaxSteps == 2
MaxRunCalls == 2
MaxWireSteps == 3
MaxSamples == 3

Jobs == 1..NJobs

\* ------------------------------------------------------------ Job options
Absent == "<undefined>"

JobType ==
  {"convert", "compress", "thumbnail", "metadata", "extractAudio", "replaceAudio",
   "toGif", "clip", "concat", "watermark", "frames"}

\* The options a caller may hand to the Job constructor: output and the
\* auxiliary file (audio / watermark) may be missing; output may be "".
GivenOptions ==
  [type : JobType, input : {"in.mp4"}, output : {Absent, "", "out.mkv"},
   aux : {Absent, "aux.bin"}]

NoOpts == [type |-> "none", input |-> "", output |-> Absent, aux |-> Absent]

\* Job.withDefaults: `output: o.output ?? "output.mp4"` (?? keeps "").
withDefaults(o) ==
  [o EXCEPT !.output = IF o.output = Absent THEN "output.mp4" ELSE o.output]

\* JavaScript truthiness of an optional string.
Truthy(s) == s # Absent /\ s # ""

\* Job.buildArgs: [err |-> TRUE] where the code throws, else the argument list.
buildArgs(o) ==
  CASE o.type \in {"convert", "compress", "thumbnail", "extractAudio", "toGif",
                   "clip", "concat", "frames"} ->
         IF ~Truthy(o.output) THEN [err |-> TRUE, args |-> <<>>]
         ELSE [err |-> FALSE, args |-> <<"-i", o.input, "-y", o.output>>]
    [] o.type = "metadata" ->
         [err |-> FALSE, args |-> <<"-i", o.input, "-f", "ffmetadata", "-">>]
    [] o.type \in {"replaceAudio", "watermark"} ->
         IF ~Truthy(o.aux) \/ ~Truthy(o.output) THEN [err |-> TRUE, args |-> <<>>]
         ELSE [err |-> FALSE, args |-> <<"-i", o.input, "-i", o.aux, "-y", o.output>>]
    [] OTHER -> [err |-> TRUE, args |-> <<>>]

\* ---------------------------------------------------------------- state
VARIABLES
  given,        \* [Jobs -> options as handed to the constructor]
  opts,         \* [Jobs -> Job.opts (defaults filled in)]
  jstate,       \* [Jobs -> Job.state]
  live,         \* [Jobs -> spawned processes that have emitted nothing yet]
  errd,         \* [Jobs -> processes that emitted 'error', 'close' pending]
  timer,        \* [Jobs -> "none" | "armed"], the setTimeout of start(timeoutMs)
  kills,        \* [Jobs -> number of SIGKILLs sent] (saturating)
  starts,       \* [Jobs -> number of start() calls]
  spawned,      \* [Jobs -> number of processes spawned]
  nDone,        \* [Jobs -> 'done' notifications emitted] (saturating)
  nError,       \* [Jobs -> 'error' notifications emitted] (saturating)
  said,         \* [Jobs -> argument of the latest 'done' or 'error' emitted]
  lastOp,       \* the public call made by the last step, "-" for an event
  procErrors,   \* processes that failed to spawn so far
  q,            \* JobQueue.q or Queue.jobs, the backlog (job ids, oldest first)
  running,      \* JobQueue.running or Queue.running
  stopped,      \* JobQueue.stopped
  tries,        \* [Jobs -> Entry.tries]
  armed,        \* [Jobs -> runEntry's once-listeners are registered]
  backoff,      \* jobs whose onError is suspended in the backoff wait
  qremoved,     \* jobs that JobQueue.cancel took out of the backlog
  idleCancel,   \* jobs JobQueue.cancel was called for while they were not executing
  listening,    \* jobs that carry the 'done' and 'error' listeners of Queue.next
  empties,      \* 'empty' notifications the Queue has emitted
  concurrency,  \* JobQueue.concurrency or Queue.concurrency
  maxRetries,   \* JobQueue.maxRetries
  backoffMs,    \* JobQueue.backoffMs
  steps,        \* Pipeline.steps: records [type, input, output]
  initialInput, \* Pipeline.initialInput
  isRunning,    \* Pipeline.isRunning
  aborted,      \* Pipeline.aborted
  cur,          \* the step executePipeline awaits (1-based), 0 if none
  lastOutput,   \* executePipeline's local lastOutput
  unit,         \* per step, the Job created for it by the latest run
  stale,        \* units of earlier runs that have not terminated
  tickQ,        \* errors queued with process.nextTick
  runErr,       \* 'error' notifications of the pipeline since the latest run() began
  runDone,      \* 'done' notifications of the pipeline since the latest run() began
  lastErr,      \* the latest pipeline 'error': [kind, idx]
  nRunCalls,    \* run() calls so far
  failedAt,     \* the step whose failure ended the latest run (1-based), 0 if none
  durationSeconds, \* fluent-ffmpeg Job.durationSeconds, in ticks
  lastPercent,  \* lastPercent of the fluent-ffmpeg Job's start(), times durationSeconds
  marks,        \* timemarks of the progress events fluent-ffmpeg has delivered
  emitted,      \* percents the fluent-ffmpeg Job has emitted, in hundredths
  lines,        \* time= fields of the stderr samples the spawn Job has read
  progressed,   \* percents the spawn Job has emitted, times PercentDen
  overall,      \* the latest two 'progress' notifications of the Pipeline
  raw,          \* the error a step of the Pipeline failed with
  enhanced      \* the error the Pipeline reported for it

jobVars == <<given, opts, jstate, live, errd, timer, kills, starts, spawned,
             nDone, nError, said>>
queueVars == <<q, running, stopped, tries, armed, backoff, qremoved, idleCancel,
              listening, empties>>
configVars == <<concurrency, maxRetries, backoffMs>>
pipeVars == <<steps, initialInput, isRunning, aborted, cur, lastOutput, unit,
              stale, tickQ, runErr, runDone, lastErr, nRunCalls, failedAt>>
progressVars == <<durationSeconds, lastPercent, marks, emitted, lines, progressed,
                  overall>>
errorVars == <<raw, enhanced>>
vars == <<jobVars, lastOp, procErrors, queueVars, configVars, pipeVars, progressVars,
          errorVars>>

JobState == {"queued", "running", "done", "error", "cancelled"}
Terminal == {"done", "error", "cancelled"}

\* Notifications are counted as 0, 1 and 2 for "two or more".
Bump(n) == IF n < 2 THEN n + 1 ELSE n

\* The mutable state as one record, so that a handler and everything it calls
\* synchronously is one function from record to record. `thrown` is the
\* exception in flight (not a variable).
World ==
  [given |-> given, opts |-> opts, jstate |-> jstate, live |-> live, errd |-> errd,
   timer |-> timer, kills |-> kills, starts |-> starts, spawned |-> spawned,
   nDone |-> nDone, nError |-> nError, said |-> said, q |-> q, running |-> running,
   stopped |-> stopped, tries |-> tries, armed |-> armed, backoff |-> backoff,
   qremoved |-> qremoved, idleCancel |-> idleCancel, listening |-> listening, empties |-> empties,
   thrown |-> FALSE]

Commit(w) ==
  /\ given' = w.given /\ opts' = w.opts /\ jstate' = w.jstate
  /\ live' = w.live /\ errd' = w.errd /\ timer' = w.timer /\ kills' = w.kills
  /\ starts' = w.starts /\ spawned' = w.spawned
  /\ nDone' = w.nDone /\ nError' = w.nError /\ said' = w.said
  /\ q' = w.q /\ running' = w.running /\ stopped' = w.stopped
  /\ tries' = w.tries /\ armed' = w.armed /\ backoff' = w.backoff
  /\ qremoved' = w.qremoved /\ listening' = w.listening /\ empties' = w.empties
  /\ idleCancel' = w.idleCancel
  /\ UNCHANGED <<errorVars, configVars, pipeVars, progressVars>>

\* ------------------------------------------------------------------- Job
\* Job.setState (its 'state' event only reaches the queue's bubbling listener).
setState(w, j, s) == [w EXCEPT !.jstate[j] = s]

\* Job.start(timeoutMs): buildArgs may throw before anything else happens.
start(w, j, timeoutMs) ==
  IF buildArgs(w.opts[j]).err
    THEN [w EXCEPT !.starts[j] = @ + 1, !.thrown = TRUE]
    ELSE [setState(w, j, "running") EXCEPT
            !.starts[j] = @ + 1,
            !.spawned[j] = @ + 1,
            !.live[j] = @ + 1,
            !.timer[j] = IF timeoutMs > 0 THEN "armed" ELSE @]

\* JobQueue.tick's loop condition.
tickGuardBad(w) == w.running <= concurrency /\ w.q # <<>>
tickGuard(w) == w.running < concurrency /\ w.q # <<>>

\* JobQueue.runEntry: running++, once('done'), once('error'), job.start().
runEntry(w, j) ==
  start([w EXCEPT !.running = @ + 1, !.armed[j] = TRUE], j, 0)

\* JobQueue.tick; an exception thrown by job.start() leaves the loop.
RECURSIVE tick(_)
tick(w) ==
  IF w.stopped THEN w
  ELSE IF tickGuard(w)
    THEN LET w1 == runEntry([w EXCEPT !.q = Tail(@)], Head(w.q))
         IN  IF w1.thrown THEN w1 ELSE tick(w1)
    ELSE w

\* runEntry's onDone.
onDone(w, j) == tick([w EXCEPT !.armed[j] = FALSE, !.running = @ - 1])

\* q.unshift(entry) of onError.
unshiftBad(s, j) == Append(s, j)
unshift(s, j) == <<j>> \o s

\* The retry test of onError.
mayRetryBad(w, j) == w.tries[j] <= maxRetries
mayRetry(w, j) == w.tries[j] < maxRetries

\* runEntry's onError up to its await (all of it when backoffMs is 0).
onError(w, j) ==
  LET w1 == [w EXCEPT !.armed[j] = FALSE] IN
  IF mayRetry(w1, j)
    THEN LET w2 == [w1 EXCEPT !.tries[j] = @ + 1] IN
         IF backoffMs > 0
           THEN [w2 EXCEPT !.backoff = @ \cup {j}]
           ELSE tick([w2 EXCEPT !.q = unshift(@, j), !.running = @ - 1])
    ELSE tick([w1 EXCEPT !.running = @ - 1])

\* Queue.next: one job at most; its listeners stay on the job for good.
next(w) ==
  IF w.running >= concurrency \/ w.q = <<>> THEN w
  ELSE start([w EXCEPT !.q = Tail(@), !.running = @ + 1,
                       !.listening = @ \cup {Head(w.q)}], Head(w.q), 0)

\* The 'done' and the 'error' listener of Queue.next (they differ in the
\* notification they forward): running--, next(), and 'empty' when idle.
onTerminal(w) ==
  LET w1 == next([w EXCEPT !.running = @ - 1]) IN
  IF w1.thrown THEN w1
  ELSE IF w1.running = 0 /\ w1.q = <<>> THEN [w1 EXCEPT !.empties = @ + 1]
  ELSE w1

\* EventEmitter.emit for the two terminal events of a Job: the listeners
\* registered by runEntry or by Queue.next run synchronously.
emit(w, j, ev, arg) ==
  IF ev = "done"
    THEN LET w1 == [w EXCEPT !.nDone[j] = Bump(@), !.said[j] = arg]
         IN  IF w.armed[j] THEN onDone(w1, j)
             ELSE IF j \in w.listening THEN onTerminal(w1)
             ELSE w1
    ELSE LET w1 == [w EXCEPT !.nError[j] = Bump(@), !.said[j] = arg]
         IN  IF w.armed[j] THEN onError(w1, j)
             ELSE IF j \in w.listening THEN onTerminal(w1)
             ELSE w1

\* Job.fail
fail(w, j, err) == emit(setState(w, j, "error"), j, "error", err)

\* The guard of Job.cancel: `this.proc && this.state === "running"`.
cancelGuardBad(w, j) == w.spawned[j] > 0
cancelGuard(w, j) == w.spawned[j] > 0 /\ w.jstate[j] = "running"

\* Job.cancel(reason)
cancel(w, j, reason) ==
  IF cancelGuard(w, j)
    THEN emit(setState([w EXCEPT !.kills[j] = Bump(@)], j, "cancelled"), j, "error",
              "Job " \o reason)
    ELSE w

\* The proc 'close' listener of Job.start.
onClose(w, j, code) ==
  IF code = 0 THEN emit(setState(w, j, "done"), j, "done", w.opts[j].output)
  ELSE IF w.jstate[j] # "cancelled"
    THEN fail(w, j, "ffmpeg exited with code " \o ToString(code))
  ELSE w

\* ------------------------------------------------------- Job, standalone
TimeoutChoices == {0, 1000}
ExitCodes == {0, 1}
JobExitCodes == {0, 1, 2}

\* A caller starts the job (once: a Job is single-use).
JStart(j, t) ==
  /\ starts[j] = 0 /\ opts[j] # NoOpts
  /\ Commit(start(World, j, t))
  /\ lastOp' = "start"
  /\ UNCHANGED procErrors

\* A caller calls job.cancel().
JCancel(j) ==
  /\ opts[j] # NoOpts
  /\ Commit(cancel(World, j, "cancelled"))
  /\ lastOp' = "cancel"
  /\ UNCHANGED procErrors

\* The callback of the timer set by start(timeoutMs).
onTimeoutBad(w, j) == cancel([w EXCEPT !.timer[j] = "none"], j, "cancelled")
onTimeout(w, j) == cancel([w EXCEPT !.timer[j] = "none"], j, "timeout")

\* The timer set by start(timeoutMs) fires.
JTimeout(j) ==
  /\ timer[j] = "armed"
  /\ Commit(onTimeout(World, j))
  /\ lastOp' = "timeout"
  /\ UNCHANGED procErrors

\* The process emits 'error' (it could not be spawned): fail(err).
ProcError(j) ==
  /\ live[j] > 0
  /\ procErrors < MaxProcErrors
  /\ procErrors' = procErrors + 1
  /\ Commit(fail([World EXCEPT !.live[j] = @ - 1, !.errd[j] = @ + 1], j,
                 "ffmpeg missing"))
  /\ lastOp' = "-"

\* The process emits 'close'. One that failed to spawn closes with a
\* nonzero code; any other may have exited with 0 or not, killed or not.
ProcClose(j, code) ==
  \/ /\ live[j] > 0
     /\ Commit(onClose([World EXCEPT !.live[j] = @ - 1], j, code))
     /\ lastOp' = "-" /\ UNCHANGED procErrors
  \/ /\ errd[j] > 0 /\ code # 0
     /\ Commit(onClose([World EXCEPT !.errd[j] = @ - 1], j, code))
     /\ lastOp' = "-" /\ UNCHANGED procErrors

\* The same event of the standalone Job, with the exit code on record.
JClose(j, code) ==
  \/ /\ live[j] > 0
     /\ Commit(onClose([World EXCEPT !.live[j] = @ - 1], j, code))
     /\ lastOp' = "close " \o ToString(code) /\ UNCHANGED procErrors
  \/ /\ errd[j] > 0 /\ code # 0
     /\ Commit(onClose([World EXCEPT !.errd[j] = @ - 1], j, code))
     /\ lastOp' = "close " \o ToString(code) /\ UNCHANGED procErrors

\* No step has failed.
NoError == [categorized |-> FALSE, code |-> "-", has |-> {}, exit |-> Absent]
InitErrorsIdle == raw = NoError /\ enhanced = NoError

InitQueueIdle ==
  /\ q = <<>> /\ running = 0 /\ stopped = FALSE
  /\ tries = [j \in Jobs |-> 0] /\ armed = [j \in Jobs |-> FALSE]
  /\ backoff = {} /\ qremoved = {} /\ listening = {} /\ empties = 0
  /\ idleCancel = {}

NoErr == [kind |-> "none", idx |-> 0]

InitPipeIdle ==
  /\ steps = <<>> /\ initialInput = "" /\ isRunning = FALSE /\ aborted = FALSE
  /\ cur = 0 /\ lastOutput = "" /\ unit = <<>> /\ stale = 0 /\ tickQ = <<>>
  /\ runErr = 0 /\ runDone = 0 /\ lastErr = NoErr /\ nRunCalls = 0 /\ failedAt = 0

InitProgressIdle ==
  /\ durationSeconds = 0 /\ lastPercent = 0 /\ marks = <<>> /\ emitted = <<>>
  /\ lines = <<>> /\ progressed = <<>> /\ overall = <<>>

InitJobsFresh ==
  /\ jstate = [j \in Jobs |-> "queued"]
  /\ live = [j \in Jobs |-> 0] /\ errd = [j \in Jobs |-> 0]
  /\ timer = [j \in Jobs |-> "none"] /\ kills = [j \in Jobs |-> 0]
  /\ starts = [j \in Jobs |-> 0] /\ spawned = [j \in Jobs |-> 0]
  /\ nDone = [j \in Jobs |-> 0] /\ nError = [j \in Jobs |-> 0]
  /\ said = [j \in Jobs |-> "-"]
  /\ lastOp = "-" /\ procErrors = 0

\* One Job, constructed from any of the options, and no queue.
InitJob ==
  /\ \E o \in GivenOptions :
       /\ given = [j \in Jobs |-> IF j = 1 THEN o ELSE NoOpts]
       /\ opts = [j \in Jobs |-> IF j = 1 THEN withDefaults(o) ELSE NoOpts]
  /\ InitJobsFresh
  /\ InitQueueIdle
  /\ InitPipeIdle
  /\ InitProgressIdle
  /\ concurrency = 2 /\ maxRetries = 0 /\ backoffMs = 0
  /\ InitErrorsIdle

NextJob ==
  \/ \E t \in TimeoutChoices : JStart(1, t)
  \/ JCancel(1)
  \/ JTimeout(1)
  \/ ProcError(1)
  \/ \E code \in JobExitCodes : JClose(1, code)

SpecJob == InitJob /\ [][NextJob]_vars

\* -------------------------------------------------------------- JobQueue
\* The configurations: the default concurrency 2 and a tighter one; with and
\* without a backoff delay.
ConcurrencyChoices == {1, 2}
BackoffChoices == {0, 100}

\* What the jobs handed to a queue are built from: one that starts, and one
\* whose start() throws (a watermark job without its watermark file).
QueueOptions ==
  {[type |-> "convert", input |-> "in.mp4", output |-> "out.mkv", aux |-> Absent],
   [type |-> "watermark", input |-> "in.mp4", output |-> "out.mkv", aux |-> Absent]}

\* Index of job j in the backlog, 0 if it is not there (q.findIndex).
findIndex(s, j) ==
  IF \E i \in 1..Len(s) : s[i] = j
    THEN CHOOSE i \in 1..Len(s) : s[i] = j /\ \A k \in 1..(i - 1) : s[k] # j
    ELSE 0

\* q.splice(idx, 1)
splice(s, i) == [k \in 1..(Len(s) - 1) |-> IF k < i THEN s[k] ELSE s[k + 1]]

\* JobQueue.add of a newly built job (jobs are built in the order of their ids).
Add(j, o) ==
  /\ opts[j] = NoOpts
  /\ \A k \in Jobs : k < j => opts[k] # NoOpts
  /\ Commit(tick([World EXCEPT !.given[j] = o, !.opts[j] = withDefaults(o),
                               !.q = Append(@, j)]))
  /\ lastOp' = "-"
  /\ UNCHANGED procErrors

\* JobQueue.pause
Pause ==
  /\ ~stopped
  /\ Commit([World EXCEPT !.stopped = TRUE])
  /\ lastOp' = "-"
  /\ UNCHANGED procErrors

\* JobQueue.resume
Resume ==
  /\ stopped
  /\ Commit(tick([World EXCEPT !.stopped = FALSE]))
  /\ lastOp' = "-"
  /\ UNCHANGED procErrors

\* JobQueue.cancel(jobId)
QCancel(j) ==
  /\ opts[j] # NoOpts
  /\ LET idx == findIndex(q, j) IN
     IF idx > 0
       THEN /\ Commit(cancel([World EXCEPT !.q = splice(@, idx),
                                           !.qremoved = @ \cup {j}], j, "removed"))
            /\ lastOp' = "-" /\ UNCHANGED procErrors
       ELSE /\ Commit(World)
            /\ lastOp' = "-" /\ UNCHANGED procErrors

\* The backoff wait of onError ends: q.unshift(entry); running--; tick().
BackoffExpire(j) ==
  /\ j \in backoff
  /\ Commit(tick([World EXCEPT !.backoff = @ \ {j}, !.q = unshift(@, j),
                               !.running = @ - 1]))
  /\ lastOp' = "-" /\ UNCHANGED procErrors

InitQueue ==
  /\ given = [j \in Jobs |-> NoOpts] /\ opts = [j \in Jobs |-> NoOpts]
  /\ InitJobsFresh
  /\ InitQueueIdle
  /\ InitPipeIdle
  /\ InitProgressIdle
  /\ concurrency \in ConcurrencyChoices
  /\ maxRetries \in 0..MaxRetries
  /\ backoffMs \in BackoffChoices
  /\ InitErrorsIdle

NextQueue ==
  \/ \E j \in Jobs, o \in QueueOptions : Add(j, o)
  \/ Pause
  \/ Resume
  \/ \E j \in Jobs : QCancel(j)
  \/ \E j \in Jobs : BackoffExpire(j)
  \/ \E j \in Jobs : ProcError(j)
  \/ \E j \in Jobs, code \in ExitCodes : ProcClose(j, code)

SpecQueue == InitQueue /\ [][NextQueue]_vars

\* The same queue where what the code waits for does happen: a spawned
\* process closes, a backoff timer fires, and a paused queue is resumed.
SpecQueueLive ==
  /\ SpecQueue
  /\ WF_vars(Resume)
  /\ WF_vars(\E j \in Jobs : BackoffExpire(j))
  /\ WF_vars(\E j \in Jobs, code \in ExitCodes : ProcClose(j, code))

\* ------------------------------------------- JobQueue.cancel, with results
\* The retry limits of the queues whose cancel() calls are followed.
CancelRetries == {0, 1}

\* What a cancel(jobId) call gave back: its return value and, when it emitted
\* one, the 'job:cancel' notification.
cancelReturn(j, ret) ==
  "cancel " \o ToString(j) \o (IF ret THEN ": true" ELSE ": job:cancel, false")

\* this.emit("job:cancel", jobId): the queue itself has no listener for it.
emitJobCancelBad(w, j) == cancel(w, j, "cancelled")
emitJobCancel(w, j) == w

\* JobQueue.cancel(jobId), with what the call gave back on record.
QCancelCall(j) ==
  /\ opts[j] # NoOpts
  /\ LET idx == findIndex(q, j) IN
     IF idx > 0
       THEN /\ Commit(cancel([World EXCEPT !.q = splice(@, idx),
                                           !.qremoved = @ \cup {j},
                                           !.idleCancel = @ \cup {j}], j, "removed"))
            /\ lastOp' = cancelReturn(j, TRUE)
       ELSE /\ Commit(emitJobCancel(
                        [World EXCEPT !.idleCancel =
                           IF j \in backoff THEN @ \cup {j} ELSE @], j))
            /\ lastOp' = cancelReturn(j, FALSE)
  /\ UNCHANGED procErrors

InitCancel ==
  /\ given = [j \in Jobs |-> NoOpts] /\ opts = [j \in Jobs |-> NoOpts]
  /\ InitJobsFresh
  /\ InitQueueIdle
  /\ InitPipeIdle
  /\ InitProgressIdle
  /\ concurrency \in ConcurrencyChoices
  /\ maxRetries \in CancelRetries
  /\ backoffMs \in BackoffChoices
  /\ InitErrorsIdle

NextCancel ==
  \/ \E j \in Jobs, o \in QueueOptions : Add(j, o)
  \/ Pause
  \/ Resume
  \/ \E j \in Jobs : QCancelCall(j)
  \/ \E j \in Jobs : BackoffExpire(j)
  \/ \E j \in Jobs : ProcError(j)
  \/ \E j \in Jobs, code \in ExitCodes : ProcClose(j, code)

SpecCancel == InitCancel /\ [][NextCancel]_vars

\* ------------------------------------- JobQueue whose jobs a caller cancels
\* The caller of add() keeps the Job and may call job.cancel() on it.
NextQueueJobCancel ==
  \/ \E j \in Jobs, o \in QueueOptions : Add(j, o)
  \/ \E j \in Jobs : JCancel(j)
  \/ \E j \in Jobs : BackoffExpire(j)
  \/ \E j \in Jobs : ProcError(j)
  \/ \E j \in Jobs, code \in ExitCodes : ProcClose(j, code)

SpecQueueJobCancel == InitCancel /\ [][NextQueueJobCancel]_vars

\* ------------------------------------------------------------------ Queue
\* The jobs handed to a Queue.
NQueueJobs == 3
QueueJobs == 1..NQueueJobs

\* Queue.add of a newly built job (jobs are built in the order of their ids).
QueueAdd(j, o) ==
  /\ opts[j] = NoOpts
  /\ \A k \in QueueJobs : k < j => opts[k] # NoOpts
  /\ Commit(next([World EXCEPT !.given[j] = o, !.opts[j] = withDefaults(o),
                               !.q = Append(@, j)]))
  /\ lastOp' = "-"
  /\ UNCHANGED procErrors

\* new Queue(concurrency), and no job built yet.
InitPlainQueue ==
  /\ given = [j \in QueueJobs |-> NoOpts] /\ opts = [j \in QueueJobs |-> NoOpts]
  /\ jstate = [j \in QueueJobs |-> "queued"]
  /\ live = [j \in QueueJobs |-> 0] /\ errd = [j \in QueueJobs |-> 0]
  /\ timer = [j \in QueueJobs |-> "none"] /\ kills = [j \in QueueJobs |-> 0]
  /\ starts = [j \in QueueJobs |-> 0] /\ spawned = [j \in QueueJobs |-> 0]
  /\ nDone = [j \in QueueJobs |-> 0] /\ nError = [j \in QueueJobs |-> 0]
  /\ said = [j \in QueueJobs |-> "-"]
  /\ lastOp = "-" /\ procErrors = 0
  /\ q = <<>> /\ running = 0 /\ stopped = FALSE
  /\ tries = [j \in QueueJobs |-> 0] /\ armed = [j \in QueueJobs |-> FALSE]
  /\ backoff = {} /\ qremoved = {} /\ listening = {} /\ empties = 0
  /\ idleCancel = {}
  /\ InitPipeIdle
  /\ InitProgressIdle
  /\ concurrency \in ConcurrencyChoices
  /\ maxRetries = 0 /\ backoffMs = 0
  /\ InitErrorsIdle

NextPlainQueue ==
  \/ \E j \in QueueJobs, o \in QueueOptions : QueueAdd(j, o)
  \/ \E j \in QueueJobs : ProcError(j)
  \/ \E j \in QueueJobs, code \in ExitCodes : ProcClose(j, code)

SpecPlainQueue == InitPlainQueue /\ [][NextPlainQueue]_vars

\* -------------------------------------------------------------- Pipeline
VIDEO_OPERATIONS ==
  {"convert", "compress", "clip", "watermark", "toGif", "replaceAudio"}
AUDIO_OPERATIONS == {"extractAudio"}
VIDEO_REQUIRED_OPERATIONS ==
  {"thumbnail", "watermark", "toGif", "clip", "convert", "compress"}

\* The files fs.existsSync / fs.accessSync find.
ExistingFiles == {"sample.mp4"}

\* Date.now() at the time an output name is generated.
Timestamp == 1700000000

\* Pipeline.generateDefaultOutput(type, index), index 0-based.
generateDefaultOutput(type, index) ==
  LET tail == ToString(index) \o "_" \o ToString(Timestamp) IN
  CASE type = "convert" -> "output_" \o tail \o ".mp4"
    [] type = "compress" -> "compressed_" \o tail \o ".mp4"
    [] type = "replaceAudio" -> "replaced_" \o tail \o ".mp4"
    [] type = "toGif" -> "animation_" \o tail \o ".gif"
    [] type = "clip" -> "clip_" \o tail \o ".mp4"
    [] type = "concat" -> "concatenated_" \o tail \o ".mp4"
    [] type = "watermark" -> "watermarked_" \o tail \o ".mp4"
    [] type = "extractAudio" -> "audio_" \o tail \o ".aac"
    [] type = "thumbnail" -> "thumb_" \o tail \o ".png"
    [] type = "frames" -> "frame_%04d_" \o tail \o ".png"
    [] type = "metadata" -> "metadata_" \o tail \o ".json"
    [] OTHER -> "output_" \o tail

\* The Pipeline's mutable state as one record (as World for the queue).
PWorld ==
  [steps |-> steps, initialInput |-> initialInput, isRunning |-> isRunning,
   aborted |-> aborted, cur |-> cur, lastOutput |-> lastOutput, unit |-> unit,
   stale |-> stale, tickQ |-> tickQ, runErr |-> runErr, runDone |-> runDone,
   lastErr |-> lastErr, nRunCalls |-> nRunCalls, failedAt |-> failedAt]

PCommit(p) ==
  /\ steps' = p.steps /\ initialInput' = p.initialInput
  /\ isRunning' = p.isRunning /\ aborted' = p.aborted /\ cur' = p.cur
  /\ lastOutput' = p.lastOutput /\ unit' = p.unit /\ stale' = p.stale
  /\ tickQ' = p.tickQ /\ runErr' = p.runErr /\ runDone' = p.runDone
  /\ lastErr' = p.lastErr /\ nRunCalls' = p.nRunCalls /\ failedAt' = p.failedAt
  /\ UNCHANGED <<jobVars, procErrors, queueVars, errorVars, configVars, progressVars>>

ActiveUnit == {"probing", "running"}

\* this.emit('error', err, idx) and this.emit('done') of the Pipeline.
emitError(p, kind, idx) ==
  [p EXCEPT !.runErr = Bump(@), !.lastErr = [kind |-> kind, idx |-> idx]]
emitDone(p) == [p EXCEPT !.runDone = Bump(@)]

\* The backward search of resolveJobInput: for (j = index - 1; j >= 0; j--).
RECURSIVE searchBack(_, _)
searchBack(p, j) ==
  IF j < 1 THEN p.initialInput
  ELSE IF p.steps[j].type \in VIDEO_OPERATIONS THEN p.steps[j].output
  ELSE searchBack(p, j - 1)

\* A plausible slip: the step just before, whatever its kind.
resolveJobInputBad(p, i, lastOut) == lastOut
\* Pipeline.resolveJobInput (i is 1-based here).
resolveJobInput(p, i, lastOut) ==
  IF p.steps[i].type \in VIDEO_REQUIRED_OPERATIONS /\ p.steps[i].type = "thumbnail"
    THEN searchBack(p, i - 1)
    ELSE lastOut

\* The body of executePipeline's loop up to the await inside executeJob:
\* resolve the input, generate the output if missing, create and start the Job.
startStep(p, i) ==
  LET inp == resolveJobInput(p, i, p.lastOutput)
      out == IF Truthy(p.steps[i].output) THEN p.steps[i].output
             ELSE generateDefaultOutput(p.steps[i].type, i - 1)
  IN  [p EXCEPT !.steps[i].input = inp, !.steps[i].output = out,
                !.unit[i] = "probing", !.cur = i]

\* executePipeline after its loop, and run()'s finally.
finishBad(p) == [p EXCEPT !.isRunning = FALSE, !.cur = 0]
finish(p) ==
  [(IF ~p.aborted THEN emitDone(p) ELSE p) EXCEPT !.isRunning = FALSE, !.cur = 0]

\* executePipeline's loop test, entered with the index of the next step.
loopBad(p, i) == IF i <= Len(p.steps) THEN startStep(p, i) ELSE finish(p)
loop(p, i) ==
  IF i <= Len(p.steps) /\ ~p.aborted THEN startStep(p, i) ELSE finish(p)

\* executeJob's promise resolves: lastOutput = step.output, next iteration.
afterResolve(p) ==
  loop([p EXCEPT !.lastOutput = p.steps[p.cur].output], p.cur + 1)

\* executeJob's promise rejects: the catch of executePipeline emits the error
\* with index -1, then run()'s finally.
afterRejectBad(p, kind) ==
  loop([emitError(p, kind, -1) EXCEPT !.failedAt = p.cur], p.cur + 1)
afterReject(p, kind) ==
  [emitError(p, kind, -1) EXCEPT !.isRunning = FALSE, !.cur = 0, !.failedAt = p.cur]

\* The timeout callback of executeJob: cleanup() (the Job is left running)
\* and reject.
onStepTimeoutBad(p) == afterResolve(p)
onStepTimeout(p) == afterReject(p, "timeout")

\* Pipeline.validateOutputPaths: TRUE where it throws "Duplicate output path".
validateOutputPathsBad(ss) == FALSE
validateOutputPaths(ss) ==
  \E i, j \in 1..Len(ss) :
    i < j /\ Truthy(ss[i].output) /\ ss[i].output = ss[j].output

\* Pipeline.validatePipeline: TRUE where it throws a MediaXValidationError.
validatePipeline(p) ==
  \/ p.initialInput = ""
  \/ p.initialInput \notin ExistingFiles
  \/ Len(p.steps) = 0
  \/ validateOutputPaths(p.steps)

\* Pipeline.run(input)
run(p, input) ==
  LET p1 == [p EXCEPT !.initialInput = IF Truthy(input) THEN input ELSE @,
                      !.nRunCalls = @ + 1]
  IN  IF p1.isRunning
        THEN [p1 EXCEPT !.tickQ = Append(@, "running")]
      ELSE IF validatePipeline(p1)
        THEN [p1 EXCEPT !.tickQ = Append(@, "validation")]
      ELSE loop([p1 EXCEPT !.isRunning = TRUE, !.aborted = FALSE,
                           !.runErr = 0, !.runDone = 0, !.failedAt = 0,
                           !.lastOutput = p1.initialInput,
                           !.stale = @ + Cardinality({i \in 1..Len(p1.unit) :
                                                        p1.unit[i] \in ActiveUnit}),
                           !.unit = [i \in 1..Len(p1.steps) |-> "none"]], 1)

InputChoices == {Absent, "sample.mp4", "missing.mp4"}
OutputChoices == {Absent, "a.mkv"}
PipeKinds == {"convert", "thumbnail", "metadata"}

\* Pipeline.validateNotRunning: whether it throws.
validateNotRunningBad(p) == FALSE
validateNotRunning(p) == p.isRunning

\* pipeline.setInput(input)
SetInput(input) ==
  /\ input # Absent
  /\ IF validateNotRunning(PWorld)
       THEN PCommit(PWorld) /\ lastOp' = "throw"
       ELSE PCommit([PWorld EXCEPT !.initialInput = input]) /\ lastOp' = "-"

\* pipeline.addStep(step), which every builder method ends with.
AddStep(type, output) ==
  /\ Len(steps) < MaxSteps
  /\ IF validateNotRunning(PWorld)
       THEN PCommit(PWorld) /\ lastOp' = "throw"
       ELSE /\ PCommit([PWorld EXCEPT !.steps =
                          Append(@, [type |-> type, input |-> "", output |-> output])])
            /\ lastOp' = "-"

\* pipeline.run(input)
RunCall(input) ==
  /\ nRunCalls < MaxRunCalls
  /\ PCommit(run(PWorld, input))
  /\ lastOp' = "run"

\* pipeline.abort()
Abort ==
  /\ IF ~isRunning THEN PCommit(PWorld)
     ELSE PCommit(emitError([PWorld EXCEPT !.aborted = TRUE], "aborted", -1))
  /\ lastOp' = "abort"

\* A process.nextTick callback of run() emits its error with index 0.
Tick ==
  /\ tickQ # <<>>
  /\ PCommit(emitError([PWorld EXCEPT !.tickQ = Tail(@)], Head(tickQ), 0))
  /\ lastOp' = "-"

\* The Job of step i is the one executeJob listens to.
Hooked(i) == isRunning /\ cur = i

\* ffprobe answers the Job of step i: a metadata Job emits 'metadata' and is
\* over; any other goes on to run ffmpeg.
UnitProbeOk(i) ==
  /\ tickQ = <<>> /\ i \in 1..Len(unit) /\ unit[i] = "probing"
  /\ PCommit([PWorld EXCEPT !.unit[i] =
                IF steps[i].type = "metadata" THEN "silent" ELSE "running"])
  /\ lastOp' = "-"

\* The Job of step i emits 'error' (ffprobe or ffmpeg failed).
UnitError(i) ==
  /\ tickQ = <<>> /\ i \in 1..Len(unit) /\ unit[i] \in ActiveUnit
  /\ LET p == [PWorld EXCEPT !.unit[i] = "error"] IN
     PCommit(IF Hooked(i) THEN afterReject(p, "job") ELSE p)
  /\ lastOp' = "-"

\* The Job of step i emits 'done' (ffmpeg ended).
UnitDone(i) ==
  /\ tickQ = <<>> /\ i \in 1..Len(unit) /\ unit[i] = "running"
  /\ LET p == [PWorld EXCEPT !.unit[i] = "done"] IN
     PCommit(IF Hooked(i) THEN afterResolve(p) ELSE p)
  /\ lastOp' = "-"

\* The timeout of executeJob fires for the awaited step.
StepTimeout ==
  /\ tickQ = <<>> /\ isRunning /\ cur > 0
  /\ PCommit(onStepTimeout(PWorld))
  /\ lastOp' = "-"

\* A unit left over from an earlier run terminates.
StaleEnd ==
  /\ tickQ = <<>> /\ stale > 0
  /\ PCommit([PWorld EXCEPT !.stale = @ - 1])
  /\ lastOp' = "-"

InitOthersIdle ==
  /\ given = [j \in Jobs |-> NoOpts] /\ opts = [j \in Jobs |-> NoOpts]
  /\ InitJobsFresh /\ InitQueueIdle
  /\ concurrency = 2 /\ maxRetries = 0 /\ backoffMs = 0
  /\ InitErrorsIdle

InitPipe == InitPipeIdle /\ InitOthersIdle /\ InitProgressIdle

NextPipe ==
  \/ \E input \in InputChoices : SetInput(input)
  \/ \E type \in PipeKinds, output \in OutputChoices : AddStep(type, output)
  \/ \E input \in InputChoices : RunCall(input)
  \/ Abort
  \/ Tick
  \/ \E i \in 1..MaxSteps : UnitProbeOk(i)
  \/ \E i \in 1..MaxSteps : UnitError(i)
  \/ \E i \in 1..MaxSteps : UnitDone(i)
  \/ StepTimeout
  \/ StaleEnd

SpecPipe == InitPipe /\ [][NextPipe]_vars

\* ------------------------------------------- Pipeline: the wiring of inputs
\* Step lists of every kind; a step's output is given or left to be generated.
WireOutput(i) == "step" \o ToString(i) \o ".out"
WireModes == {"given", "generated", "mixed"}
WireSteps(types, mode) ==
  [i \in 1..Len(types) |->
     [type |-> types[i], input |-> "",
      output |-> IF mode = "given" \/ (mode = "mixed" /\ i % 2 = 1)
                   THEN WireOutput(i) ELSE Absent]]

InitWire ==
  /\ \E n \in 1..MaxWireSteps : \E types \in [1..n -> JobType] :
       \E mode \in WireModes : steps = WireSteps(types, mode)
  /\ initialInput = "" /\ isRunning = FALSE /\ aborted = FALSE
  /\ cur = 0 /\ lastOutput = "" /\ unit = <<>> /\ stale = 0 /\ tickQ = <<>>
  /\ runErr = 0 /\ runDone = 0 /\ lastErr = NoErr /\ nRunCalls = 0 /\ failedAt = 0
  /\ InitOthersIdle /\ InitProgressIdle

NextWire ==
  \/ RunCall("sample.mp4")
  \/ \E i \in 1..MaxWireSteps : UnitProbeOk(i)
  \/ \E i \in 1..MaxWireSteps : UnitDone(i)

SpecWire == InitWire /\ [][NextWire]_vars

\* ---------------------------------------------------------------- progress
\* Times are in ticks of a tenth of a second.
TimeChoices == {1, 2, 3, 4, 130, 249, 250, 300}
DurationChoices == {3, 4, 250}

\* Number(x.toFixed(2)) of the percent num / den, in hundredths.
toFixed2(num, den) == (200 * num + den) \div (2 * den)

Min(a, b) == IF a < b THEN a ELSE b
Max(a, b) == IF a < b THEN b ELSE a

\* The throttle of the fluent-ffmpeg Job: currentPercent - lastPercent >= 1,
\* both percents times durationSeconds.
throttle(current, last) == current - last >= durationSeconds

\* The "progress" handler of the fluent-ffmpeg Job for a timemark t.
FluentProgress(t) ==
  /\ Len(marks) < MaxSamples
  /\ IF marks = <<>> THEN TRUE ELSE t > marks[Len(marks)]
  /\ marks' = Append(marks, t)
  /\ LET currentPercent == Min(100 * t, 100 * durationSeconds) IN
     IF durationSeconds # 0 /\ throttle(currentPercent, lastPercent)
       THEN /\ lastPercent' = currentPercent
            /\ emitted' = Append(emitted, toFixed2(currentPercent, durationSeconds))
       ELSE UNCHANGED <<lastPercent, emitted>>
  /\ UNCHANGED <<durationSeconds, lines, progressed, overall>>
  /\ UNCHANGED <<jobVars, lastOp, procErrors, queueVars, errorVars, configVars, pipeVars>>

\* Job.durationSec of the spawn Job: declared, never assigned.
durationSec == 0
PercentDen == IF durationSec = 0 THEN 1 ELSE durationSec

\* Job.parseProgress of the spawn Job for a line with time= t: its percent,
\* times PercentDen.
parseProgress(t) ==
  IF durationSec # 0 THEN Max(0, Min(100 * durationSec, 100 * t)) ELSE 0

\* The stderr "data" handler of the spawn Job: every parsed sample is emitted.
StderrData(t) ==
  /\ Len(lines) < MaxSamples
  /\ IF lines = <<>> THEN TRUE ELSE t > lines[Len(lines)]
  /\ lines' = Append(lines, t)
  /\ progressed' = Append(progressed, parseProgress(t))
  /\ UNCHANGED <<durationSeconds, lastPercent, marks, emitted, overall>>
  /\ UNCHANGED <<jobVars, lastOp, procErrors, queueVars, errorVars, configVars, pipeVars>>

InitProgress ==
  /\ durationSeconds \in DurationChoices \cup {0}
  /\ lastPercent = 0 /\ marks = <<>> /\ emitted = <<>>
  /\ lines = <<>> /\ progressed = <<>> /\ overall = <<>>
  /\ InitPipeIdle /\ InitOthersIdle

NextProgress ==
  \/ \E t \in TimeChoices : FluentProgress(t)
  \/ \E t \in TimeChoices : StderrData(t)

SpecProgress == InitProgress /\ [][NextProgress]_vars

\* ------------------------------------- the spawn Job and its stderr stream
\* The time= fields of the samples a process writes.
DataTimes == {1, 2}

\* The stderr 'data' listener of Job.start: the pipe delivers what the
\* process wrote until the process closes, also after it was sent a SIGKILL.
JData(j, t) ==
  /\ live[j] > 0
  /\ StderrData(t)

NextJobData ==
  \/ \E t \in TimeoutChoices : JStart(1, t)
  \/ JCancel(1)
  \/ JTimeout(1)
  \/ ProcError(1)
  \/ \E code \in JobExitCodes : JClose(1, code)
  \/ \E t \in DataTimes : JData(1, t)

SpecJobData == InitJob /\ [][NextJobData]_vars

\* --------------------------------------- Pipeline: workflow-level progress
\* Pipeline.handleJobProgress for a progress event with timemark t of the job
\* of step index (0-based) whose duration is d: the 'progress' it emits, as
\* the fraction num / den with the percents it was computed from; <<>> where
\* it returns without emitting. Its lastPercent argument is always 0.
overallPercentBad(index, currentPercent, d, total) ==
  [num |-> 100 * (index + 1) * d + currentPercent, den |-> total * d]
overallPercent(index, currentPercent, d, total) ==
  [num |-> 100 * index * d + currentPercent, den |-> total * d]

handleJobProgress(t, d, index, total) ==
  LET currentPercent == Min(100 * t, 100 * d) IN
  IF d = 0 THEN <<>>
  ELSE IF currentPercent - 0 >= d
    THEN << [index |-> index, total |-> total, percent |-> currentPercent, d |-> d,
             at |-> overallPercent(index, currentPercent, d, total)] >>
  ELSE <<>>

\* The latest two of a sequence.
lastTwo(s) == IF Len(s) <= 2 THEN s ELSE SubSeq(s, Len(s) - 1, Len(s))

\* run("sample.mp4") of a pipeline that has not run yet.
OvRun == nRunCalls = 0 /\ RunCall("sample.mp4")

\* fetchDuration of the awaited step's Job resolves with duration d, and the
\* Job goes on to run ffmpeg.
OvProbeOk(d) ==
  /\ isRunning /\ cur > 0 /\ unit[cur] = "probing"
  /\ unit' = [unit EXCEPT ![cur] = "running"]
  /\ durationSeconds' = d /\ lastPercent' = 0 /\ marks' = <<>> /\ emitted' = <<>>
  /\ lastOp' = "-"
  /\ UNCHANGED <<steps, initialInput, isRunning, aborted, cur, lastOutput, stale,
                 tickQ, runErr, runDone, lastErr, nRunCalls, failedAt>>
  /\ UNCHANGED <<lines, progressed, overall>>
  /\ UNCHANGED <<jobVars, procErrors, queueVars, errorVars, configVars>>

\* fluent-ffmpeg reports progress with timemark t to the awaited step's Job;
\* what the Job emits reaches the listener executeJob registered.
OvProgress(t) ==
  /\ isRunning /\ cur > 0 /\ unit[cur] = "running"
  /\ Len(marks) < MaxSamples
  /\ IF marks = <<>> THEN TRUE ELSE t > marks[Len(marks)]
  /\ marks' = Append(marks, t)
  /\ LET currentPercent == Min(100 * t, 100 * durationSeconds) IN
     IF durationSeconds # 0 /\ throttle(currentPercent, lastPercent)
       THEN /\ lastPercent' = currentPercent
            /\ emitted' = Append(emitted, toFixed2(currentPercent, durationSeconds))
            /\ overall' = IF aborted THEN overall
                          ELSE lastTwo(overall \o handleJobProgress(
                                 t, durationSeconds, cur - 1, Len(steps)))
       ELSE UNCHANGED <<lastPercent, emitted, overall>>
  /\ lastOp' = "-"
  /\ UNCHANGED <<durationSeconds, lines, progressed>>
  /\ UNCHANGED <<jobVars, procErrors, queueVars, errorVars, configVars, pipeVars>>

OverallKinds == {"convert"}

InitOverall ==
  /\ \E n \in 1..MaxWireSteps : \E types \in [1..n -> OverallKinds] :
       steps = WireSteps(types, "given")
  /\ initialInput = "" /\ isRunning = FALSE /\ aborted = FALSE
  /\ cur = 0 /\ lastOutput = "" /\ unit = <<>> /\ stale = 0 /\ tickQ = <<>>
  /\ runErr = 0 /\ runDone = 0 /\ lastErr = NoErr /\ nRunCalls = 0 /\ failedAt = 0
  /\ InitOthersIdle /\ InitProgressIdle

NextOverall ==
  \/ OvRun
  \/ \E d \in DurationChoices : OvProbeOk(d)
  \/ \E t \in TimeChoices : OvProgress(t)
  \/ \E i \in 1..MaxWireSteps : UnitDone(i)

SpecOverall == InitOverall /\ [][NextOverall]_vars

\* ------------------------------------------- Pipeline: error classification
\* An error is what the classification reads of it: whether it is a
\* MediaXError already (and its code), which of the phrases below its
\* lower-cased message contains, and the text after "exited with code".
Phrases ==
  {"no such file", "not found", "permission denied", "does not contain any stream",
   "invalid data", "conversion failed", "ffmpeg exited with code"}
ExitTexts == {"1", "255", "null"}
MaxPhrases == 3

RawErrors ==
  {[categorized |-> FALSE, code |-> "Error", has |-> h, exit |-> x] :
     h \in {g \in SUBSET Phrases : Cardinality(g) <= MaxPhrases},
     x \in ExitTexts \cup {Absent}}
CategorizedErrors ==
  {[categorized |-> TRUE, code |-> c, has |-> h, exit |-> Absent] :
     c \in {"JOB_TIMEOUT", "VALIDATION_ERROR"}, h \in {{}, {"not found"}}}
StepErrors ==
  {e \in RawErrors : (e.exit # Absent) <=> ("ffmpeg exited with code" \in e.has)}
    \cup CategorizedErrors

\* new MediaXError(message, code): has is what the new message contains.
MediaXError(code, has) ==
  [categorized |-> TRUE, code |-> code, has |-> has, exit |-> Absent]

\* Pipeline.extractExitCode: /exited with code (\d+)/
extractExitCode(err) == IF err.exit \in {"1", "255"} THEN err.exit ELSE Absent

\* Pipeline.enhanceError
enhanceError(err) ==
  IF err.categorized THEN err
  ELSE IF "no such file" \in err.has \/ "not found" \in err.has
    THEN MediaXError("FILE_NOT_FOUND", {"not found"})
  ELSE IF "permission denied" \in err.has
    THEN MediaXError("PERMISSION_DENIED", {"permission denied"})
  ELSE MediaXError("PIPELINE_ERROR", err.has)

\* Pipeline.enhanceJobError
enhanceJobError(err) ==
  IF err.categorized THEN err
  ELSE IF "does not contain any stream" \in err.has THEN MediaXError("NO_STREAMS", {})
  ELSE IF "invalid data" \in err.has THEN MediaXError("INVALID_MEDIA", {})
  ELSE IF "conversion failed" \in err.has THEN MediaXError("CONVERSION_FAILED", {})
  ELSE IF "ffmpeg exited with code" \in err.has
    THEN [MediaXError("FFMPEG_ERROR", {}) EXCEPT !.exit = extractExitCode(err)]
  ELSE MediaXError("JOB_FAILED", err.has)

\* The Job of a step emits 'error': executeJob rejects with enhanceJobError's
\* result and the catch of executePipeline passes it through enhanceError.
StepJobError(err) ==
  /\ raw' = err
  /\ enhanced' = enhanceError(enhanceJobError(err))
  /\ lastOp' = "job error"
  /\ UNCHANGED <<jobVars, procErrors, queueVars, configVars, pipeVars, progressVars>>

\* job.start() throws: executeJob rejects with enhanceError's result and the
\* catch of executePipeline passes it through enhanceError again.
StepStartThrows(err) ==
  /\ raw' = err
  /\ enhanced' = enhanceError(enhanceError(err))
  /\ lastOp' = "start throws"
  /\ UNCHANGED <<jobVars, procErrors, queueVars, configVars, pipeVars, progressVars>>

InitClassify == InitPipeIdle /\ InitOthersIdle /\ InitProgressIdle

NextClassify ==
  \/ \E err \in StepErrors : StepJobError(err)
  \/ \E err \in StepErrors : StepStartThrows(err)

SpecClassify == InitClassify /\ [][NextClassify]_vars

\* ------------------------------------------------------- claims on a Job
\* C2: the state of a Job only moves queued -> running -> one of done, error,
\* cancelled; once it is done, error or cancelled it never changes again.
C2_StateMonotone ==
  [][jstate'[1] # jstate[1] =>
       \/ jstate[1] = "queued" /\ jstate'[1] = "running"
       \/ jstate[1] = "running" /\ jstate'[1] \in Terminal]_vars

\* C3: a started Job delivers exactly one terminal notification, 'done' or
\* 'error': never both and never the same one twice.
C3_OneTerminalNotification == nDone[1] + nError[1] <= 1

\* C8: cancel() in any state other than running (a caller's call or the
\* timeout's) changes no state, kills no process and emits no notification.
C8_CancelNoOpUnlessRunning ==
  [][(lastOp' \in {"cancel", "timeout"} /\ jstate[1] # "running") =>
       /\ jstate' = jstate /\ kills' = kills
       /\ nDone' = nDone /\ nError' = nError
       /\ live' = live /\ errd' = errd]_vars

\* A Job that is done was cancelled again: still done, one notification.
C8_Witness ==
  lastOp = "cancel" /\ jstate[1] = "done" /\ nDone[1] = 1 /\ nError[1] = 0

\* C10: a Job of any kind but metadata built from options without an output
\* field never spawns a process and never reaches the running state.
C10_NoOutputNoProcess ==
  (given[1].output = Absent /\ given[1].type # "metadata") =>
     (spawned[1] = 0 /\ jstate[1] # "running")

\* C11: a close with exit code 0 of a running Job moves it to done and emits
\* 'done' with the options' output path; a close with a nonzero code of a Job
\* that is not cancelled moves it to error and emits an error naming the code;
\* a close of a cancelled Job emits nothing.
C11_CloseOutcome ==
  [][\A code \in JobExitCodes :
       (lastOp' = "close " \o ToString(code)
          /\ live'[1] + errd'[1] < live[1] + errd[1]) =>
         /\ (jstate[1] = "running" /\ code = 0) =>
              /\ jstate'[1] = "done" /\ nDone'[1] = Bump(nDone[1])
              /\ said'[1] = opts[1].output /\ nError' = nError
         /\ (jstate[1] # "cancelled" /\ code # 0) =>
              /\ jstate'[1] = "error" /\ nError'[1] = Bump(nError[1])
              /\ said'[1] = "ffmpeg exited with code " \o ToString(code)
              /\ nDone' = nDone
         /\ jstate[1] = "cancelled" =>
              /\ jstate' = jstate /\ nDone' = nDone /\ nError' = nError
              /\ said' = said]_vars

\* C12: when the timer of start(timeout) fires on a running Job, the Job kills
\* its process, becomes cancelled and emits the error "Job timeout"; when it
\* fires on a Job already in a terminal state, nothing changes.
C12_TimeoutCancels ==
  [][(lastOp' = "timeout" /\ timer[1] = "armed" /\ timer'[1] = "none") =>
       /\ jstate[1] = "running" =>
            /\ jstate'[1] = "cancelled" /\ kills'[1] = Bump(kills[1])
            /\ nError'[1] = Bump(nError[1]) /\ said'[1] = "Job timeout"
            /\ nDone' = nDone
       /\ jstate[1] \in Terminal =>
            /\ jstate' = jstate /\ kills' = kills /\ nDone' = nDone
            /\ nError' = nError /\ said' = said]_vars

C12_Witness ==
  /\ lastOp = "timeout" /\ jstate[1] = "cancelled" /\ said[1] = "Job timeout"
  /\ kills[1] = 1 /\ nError[1] = 1 /\ timer[1] = "none"

\* ---------------------------------------------------- claims on JobQueue
\* C1: the running count of a JobQueue never exceeds its concurrency limit,
\* whatever the interleaving of add, pause, resume, cancel(id), process
\* events and backoff expiries.
C1_RunningWithinLimit == running <= concurrency

\* Every slot is taken and an entry still waits in the backlog.
C1_Witness == running = concurrency /\ q # <<>> /\ ~stopped

\* The queue has let go of job j: not in the backlog, not in an attempt, not
\* in a backoff wait.
Settled(j) ==
  opts[j] # NoOpts /\ findIndex(q, j) = 0 /\ ~armed[j] /\ j \notin backoff

\* C4: with maxRetries = N a unit is never started more than N+1 times, and
\* one whose attempts all ended in an error has been started exactly N+1
\* times when the queue drops it.
C4_AttemptsExactlyRetriesPlusOne ==
  \A j \in Jobs :
    /\ starts[j] <= maxRetries + 1
    /\ (Settled(j) /\ nDone[j] = 0 /\ j \notin qremoved) =>
          starts[j] = maxRetries + 1

\* maxRetries = 2: a unit that only failed was dropped after 3 attempts.
C4_Witness ==
  /\ maxRetries = 2
  /\ \E j \in Jobs :
       Settled(j) /\ nDone[j] = 0 /\ j \notin qremoved /\ starts[j] = 3

\* The step puts job j back into the backlog for a retry: at once after a
\* failed attempt, or when its backoff wait ends.
Requeued(j) ==
  \/ tries'[j] = tries[j] + 1 /\ j \notin backoff'
  \/ j \in backoff /\ j \notin backoff'

\* C22: JobQueue admits in the order of add(): when a job has been started,
\* every job added before it has been started too (or was taken out of the
\* backlog by cancel); a job put back for a retry goes to the front of the
\* backlog, so it is either started again in the same step or stands ahead
\* of every entry that was waiting.
C22_FifoAdmission ==
  /\ [](\A j, k \in Jobs :
          (j < k /\ starts[k] > 0) => (starts[j] > 0 \/ j \in qremoved))
  /\ [][\A j \in Jobs :
          Requeued(j) => (starts'[j] > starts[j] \/ q' = <<j>> \o q)]_vars

\* A retried job stands at the front of the backlog, ahead of an entry that
\* was already waiting there.
C22_Witness ==
  /\ stopped /\ Len(q) = 2 /\ q[1] = 2 /\ q[2] = 1
  /\ tries[2] >= 1 /\ starts[2] >= 1

\* The queue's listeners on job j have handled a terminal notification in
\* this step and the job is not held back by a backoff wait.
Released(j) == armed[j] /\ ~armed'[j] /\ j \notin backoff'

\* No job is started by a step that ends with the queue paused.
PausedStartsNothing == [][stopped' => starts' = starts]_vars

\* While the queue is paused the completion of a job gives its slot back.
PausedCompletionReleases ==
  [][\A j \in Jobs :
       (stopped /\ stopped' /\ Released(j)) => running' = running - 1]_vars

\* resume() leaves the queue with the limit reached or the backlog empty.
ResumeFillsSlots ==
  [][(stopped /\ ~stopped') => (running' >= concurrency \/ q' = <<>>)]_vars

\* C23: between pause() and the next resume() no job is started, whatever
\* is added, completes or is retried meanwhile; the completions of running
\* jobs still release their slots; resume() starts backlog entries until the
\* running count reaches the limit or the backlog is empty.
C23_PauseResume ==
  PausedStartsNothing /\ PausedCompletionReleases /\ ResumeFillsSlots

\* C24: cancel(id) of a job that is still in the backlog takes it out of the
\* backlog and cancels it: the call returns true, the job is in the
\* cancelled state, and the queue never starts it afterwards.
C24_CancelQueued ==
  /\ [][\A j \in Jobs :
          (findIndex(q, j) > 0 /\ lastOp' \in {cancelReturn(j, TRUE), cancelReturn(j, FALSE)})
            => /\ lastOp' = cancelReturn(j, TRUE)
               /\ findIndex(q', j) = 0
               /\ jstate'[j] = "cancelled"]_vars
  /\ [][\A j \in Jobs : j \in qremoved => starts'[j] = starts[j]]_vars

jobErrorEvents(j) == nError[j]

\* C29: a job's failure is reported outward, as 'job:error', only when its
\* retries are exhausted: no 'job:error' while tries < maxRetries, and a job
\* that has been reported has been reported once, after maxRetries + 1
\* attempts (three attempts when maxRetries is 2).
C29_ErrorOnlyWhenExhausted ==
  /\ [][\A j \in Jobs :
          jobErrorEvents(j)' > jobErrorEvents(j) => ~(tries[j] < maxRetries)]_vars
  /\ [](\A j \in Jobs :
          jobErrorEvents(j) > 0 =>
            (jobErrorEvents(j) = 1 /\ starts[j] = maxRetries + 1))

\* C30: a Job is single-use: the queue calls start() at most once on a Job,
\* so at most one process is spawned for it.
C30_SingleUse == \A j \in Jobs : starts[j] <= 1 /\ spawned[j] <= 1

\* The idle state of a scheduler (isIdle): nothing counted as running and
\* nothing in the backlog.
Idle == running = 0 /\ q = <<>>

\* C26: the 'empty' notification fires once for each transition into the
\* idle state, at no other step, and never while a job is running or
\* waiting in the backlog.
C26_EmptyOncePerIdle ==
  /\ [][/\ empties' \in {empties, empties + 1}
        /\ (empties' = empties + 1) <=> (~Idle /\ Idle')]_vars
  /\ [][empties' # empties =>
          \A j \in QueueJobs : jstate'[j] # "running" /\ findIndex(q', j) = 0]_vars

\* C27: when the Queue emits 'empty' every job added so far has been started
\* and has delivered a terminal notification, and none is running.
C27_EmptyMeansAllCompleted ==
  [][empties' # empties =>
       \A j \in QueueJobs :
         opts'[j] # NoOpts =>
           /\ starts'[j] > 0
           /\ nDone'[j] + nError'[j] > 0
           /\ jstate'[j] # "running"]_vars

\* C28: for Queue(n), the jobs the queue has started and that have not
\* terminated are never more than n.
C28_QueueBound ==
  Cardinality({j \in listening : jstate[j] = "running"}) <= concurrency

\* C35: JobQueue is work-conserving: between handlers, when the queue is
\* not paused, a non-empty backlog means that the running count has reached
\* the concurrency limit.
C35_WorkConserving == (~stopped /\ q # <<>>) => running >= concurrency

\* C36: JobQueue makes progress: when every attempt ends and the queue is
\* not left paused, a job that was added is started unless it is cancelled
\* out of the backlog, and the queue becomes idle again and again (running
\* count 0 and backlog empty): no slot is lost for good.
C36_QueueProgress ==
  /\ \A j \in Jobs : (opts[j] # NoOpts) ~> (starts[j] > 0 \/ j \in qremoved)
  /\ []<>Idle

\* C37: the running count of a Queue is never negative and is the number of
\* jobs the queue has started that have delivered no terminal notification.
C37_RunningCountExact ==
  /\ running >= 0
  /\ running = Cardinality({j \in listening : nDone[j] = 0 /\ nError[j] = 0})

\* C38: a job for which cancel(id) was called while it was not executing
\* (in the backlog, or waiting out its backoff) is never started again.
C38_CancelledNeverRestarted ==
  [][\A j \in Jobs : j \in idleCancel => starts'[j] = starts[j]]_vars

\* C39: a job that ended because it was cancelled is not restarted by the
\* JobQueue: neither by the step in which job.cancel() takes effect nor by
\* a later one while the job is in the cancelled state.
C39_CancelledNotRetried ==
  /\ [][\A j \in Jobs :
          (lastOp' = "cancel" /\ kills'[j] # kills[j]) => starts'[j] = starts[j]]_vars
  /\ [][\A j \in Jobs : jstate[j] = "cancelled" => starts'[j] = starts[j]]_vars

\* ---------------------------------------------------- claims on a Pipeline
\* C5: within one run the steps are started in list order and never overlap:
\* a step has a unit only when every earlier step's unit has delivered its
\* terminal notification, so at most one unit of the run is active.
C5_StepsInOrderNoOverlap ==
  /\ \A i \in 1..Len(unit) : unit[i] # "none" =>
       \A j \in 1..(i - 1) : unit[j] \in {"done", "error"}
  /\ Cardinality({i \in 1..Len(unit) : unit[i] \in ActiveUnit}) <= 1

C5_Witness ==
  /\ isRunning /\ Len(unit) = 2 /\ cur = 2
  /\ unit[1] = "done" /\ unit[2] = "running"

\* The input the claim assigns to step i of a list whose earlier steps have
\* their outputs.
NearestPlayable(i) ==
  LET V == {j \in 1..(i - 1) : steps[j].type \in VIDEO_OPERATIONS} IN
  IF V = {} THEN 0 ELSE CHOOSE j \in V : \A k \in V : k <= j
WiredInput(i) ==
  IF steps[i].type = "thumbnail"
    THEN IF NearestPlayable(i) = 0 THEN initialInput
         ELSE steps[NearestPlayable(i)].output
  ELSE IF i = 1 THEN initialInput
  ELSE steps[i - 1].output

\* C6: every started step reads the wired input: a thumbnail the output of the
\* nearest earlier step producing playable media, else the original input;
\* any other step the output of the step before it, else the original input.
C6_InputWiring ==
  \A i \in 1..Len(unit) : unit[i] # "none" =>
    /\ steps[i].input = WiredInput(i)
    /\ Truthy(steps[i].input)
    /\ (steps[i].type = "thumbnail" /\ i = 2 /\ steps[1].type = "convert")
         => steps[i].input = steps[1].output
    /\ (steps[i].type = "thumbnail" /\ i = 2 /\ steps[1].type = "extractAudio")
         => steps[i].input = initialInput
    /\ (steps[i].type = "thumbnail" /\ i = 3 /\ steps[1].type = "convert"
          /\ steps[2].type = "compress")
         => steps[i].input = steps[2].output

C6_Witness ==
  /\ Len(unit) = 2 /\ unit[2] # "none"
  /\ steps[1].type = "extractAudio" /\ steps[2].type = "thumbnail"
  /\ steps[2].input = "sample.mp4" /\ steps[1].output # "sample.mp4"

\* Two steps carry the same output path.
HasDuplicateOutput ==
  \E i, j \in 1..Len(steps) :
    i # j /\ steps[i].output = steps[j].output /\ steps[i].output \notin {Absent, ""}

\* C7: run() on a step list with a duplicate output path creates and starts no
\* unit, leaves the pipeline not running and queues a validation error, which
\* is then delivered as an 'error' with index 0.
C7_DuplicateOutputFailsValidation ==
  /\ [][(lastOp' = "run" /\ nRunCalls' = nRunCalls + 1 /\ HasDuplicateOutput) =>
          /\ ~isRunning' /\ unit' = unit /\ cur' = 0 /\ steps' = steps
          /\ runDone' = runDone
          /\ tickQ' = Append(tickQ, "validation")]_vars
  /\ [][(tickQ # <<>> /\ Head(tickQ) = "validation" /\ tickQ' = Tail(tickQ)) =>
          /\ lastErr' = [kind |-> "validation", idx |-> 0]
          /\ runErr' = Bump(runErr)]_vars

C7_Witness ==
  /\ HasDuplicateOutput /\ initialInput \in ExistingFiles
  /\ lastOp = "run" /\ tickQ = <<"validation">>
  /\ ~isRunning /\ unit = <<>> /\ runErr = 0

\* C13: run() while the pipeline is running starts nothing, emits nothing
\* before it returns and queues an 'already running' error, delivered later
\* with index 0; the execution in progress and everything it reads (its
\* steps, units, flags and the initial input) stay as they were.
C13_RunWhileRunningRejected ==
  /\ [][(isRunning /\ lastOp' = "run" /\ nRunCalls' = nRunCalls + 1) =>
          /\ isRunning' /\ unit' = unit /\ cur' = cur /\ steps' = steps
          /\ aborted' = aborted /\ lastOutput' = lastOutput /\ stale' = stale
          /\ initialInput' = initialInput
          /\ runErr' = runErr /\ runDone' = runDone /\ lastErr' = lastErr
          /\ tickQ' = Append(tickQ, "running")]_vars
  /\ [][(tickQ # <<>> /\ Head(tickQ) = "running" /\ tickQ' = Tail(tickQ)) =>
          /\ lastErr' = [kind |-> "running", idx |-> 0]
          /\ unit' = unit /\ cur' = cur /\ isRunning' = isRunning]_vars

\* C14: while the pipeline is running, no public call (setInput, addStep,
\* run, abort) changes the initial input or the step list.
C14_SealedWhileRunning ==
  [][(isRunning /\ lastOp' \in {"run", "throw", "abort"}) =>
       initialInput' = initialInput /\ steps' = steps]_vars

\* C15: abort() leaves the running step alone; once a run is aborted, no step
\* that has not started is started in it and it never emits 'done'.
C15_AbortStopsScheduling ==
  /\ [][(lastOp' = "abort" /\ isRunning) =>
          unit' = unit /\ cur' = cur /\ isRunning' /\ aborted']_vars
  /\ [][(aborted /\ (isRunning \/ lastOp' # "run")) =>
          /\ Len(unit') = Len(unit)
          /\ \A i \in 1..Len(unit) : unit[i] = "none" => unit'[i] = "none"
          /\ runDone' = runDone]_vars
  /\ [](aborted => runDone = 0)

C15_Witness ==
  /\ aborted /\ ~isRunning /\ Len(unit) = 2
  /\ unit[1] = "done" /\ unit[2] = "none" /\ runDone = 0

\* C16: an aborted run is surfaced once: the first abort() emits the error
\* "aborted" with index -1, and nothing in the run emits an error after it.
C16_AbortSurfacedOnce ==
  /\ [][(lastOp' = "abort" /\ isRunning /\ ~aborted) =>
          /\ lastErr' = [kind |-> "aborted", idx |-> -1]
          /\ runErr' = Bump(runErr)]_vars
  /\ [][(aborted /\ lastOp' # "run" /\ tickQ' = tickQ) => runErr' = runErr]_vars

\* C17: the error of a failed step carries that step's 1-based index; the
\* sentinel -1 is carried only by the abort error.
C17_ErrorCarriesStepIndex ==
  /\ (failedAt # 0 /\ lastErr.kind \in {"job", "timeout"}) => lastErr.idx = failedAt
  /\ lastErr.idx = -1 => lastErr.kind = "aborted"

\* C18: a run that is not aborted emits nothing at workflow level until it
\* ends and then exactly one notification: 'done' if every unit delivered
\* 'done', otherwise one 'error'.
C18_OneWorkflowNotification ==
  /\ [][(isRunning /\ ~isRunning' /\ ~aborted) =>
          \/ /\ \A i \in 1..Len(unit') : unit'[i] = "done"
             /\ runDone = 0 /\ runDone' = 1 /\ runErr' = runErr
          \/ /\ \E i \in 1..Len(unit') : unit'[i] # "done"
             /\ runDone' = 0 /\ runErr' = Bump(runErr)
             /\ lastErr'.kind \in {"job", "timeout"}]_vars
  /\ [][(~aborted /\ ~aborted' /\ lastOp' # "run" /\ tickQ' = tickQ
           /\ isRunning' = isRunning) =>
          runErr' = runErr /\ runDone' = runDone]_vars

C18_Witness ==
  /\ ~isRunning /\ ~aborted /\ Len(unit) = 2 /\ unit[1] = "done" /\ unit[2] = "done"
  /\ runDone = 1 /\ runErr = 0 /\ tickQ = <<>>

\* C19: once step k of a run has failed (its unit's error or its timeout), no
\* later step has a unit in that run.
C19_FailureShortCircuits ==
  /\ failedAt # 0 => \A i \in 1..Len(unit) : i > failedAt => unit[i] = "none"
  /\ \A k \in 1..Len(unit) : unit[k] = "error" =>
       \A i \in 1..Len(unit) : i > k => unit[i] = "none"

C19_Witness ==
  /\ failedAt = 1 /\ Len(unit) = 2 /\ unit[1] = "error" /\ unit[2] = "none"
  /\ lastErr.kind = "job" /\ ~isRunning

\* C20: after a step's timeout has been reported, the unit of that step is no
\* longer active, and neither is any other unit of the run.
C20_TimeoutCancelsUnit ==
  (failedAt # 0 /\ lastErr.kind = "timeout" /\ ~isRunning) =>
    \A i \in 1..Len(unit) : unit[i] \notin ActiveUnit

\* C33: a setInput, an addStep or a builder call made while the pipeline is
\* running throws: no step is added to a running pipeline, its initial input
\* changes in no call but run(), and a call that throws was made on a
\* running pipeline and leaves the pipeline as it was.
C33_BuilderThrowsWhileRunning ==
  /\ [][isRunning => Len(steps') = Len(steps)]_vars
  /\ [][(isRunning /\ lastOp' # "run") => initialInput' = initialInput]_vars
  /\ [][lastOp' = "throw" => (isRunning /\ UNCHANGED pipeVars)]_vars

\* A builder call has thrown on a running pipeline that had room for a step.
C33_Witness ==
  /\ lastOp = "throw" /\ isRunning
  /\ Len(steps) >= 1 /\ Len(steps) < MaxSteps

\* The error is not categorized yet and its message contains none of Phrases
\* but those given.
Only(err, phrases) == ~err.categorized /\ err.has \subseteq phrases

\* C34: a failure of a step is reported under the category its message
\* names: a missing file gives FILE_NOT_FOUND, 'permission denied'
\* PERMISSION_DENIED, 'does not contain any stream' NO_STREAMS, 'invalid data'
\* INVALID_MEDIA, 'conversion failed' CONVERSION_FAILED, 'ffmpeg exited with
\* code N' FFMPEG_ERROR with N, anything else a generic code; an error that
\* is categorized already is reported as it is.
C34_ErrorTaxonomy ==
  raw # NoError =>
    /\ enhanced.categorized
    /\ raw.categorized => enhanced = raw
    /\ (Only(raw, {"no such file", "not found"}) /\ raw.has # {})
         => enhanced.code = "FILE_NOT_FOUND"
    /\ (Only(raw, {"permission denied"}) /\ raw.has # {})
         => enhanced.code = "PERMISSION_DENIED"
    /\ (Only(raw, {"does not contain any stream"}) /\ raw.has # {})
         => enhanced.code = "NO_STREAMS"
    /\ (Only(raw, {"invalid data"}) /\ raw.has # {})
         => enhanced.code = "INVALID_MEDIA"
    /\ (Only(raw, {"conversion failed"}) /\ raw.has # {})
         => enhanced.code = "CONVERSION_FAILED"
    /\ (Only(raw, {"ffmpeg exited with code"}) /\ raw.has # {})
         => /\ enhanced.code = "FFMPEG_ERROR"
            /\ raw.exit \in {"1", "255"} => enhanced.exit = raw.exit
    /\ Only(raw, {}) => enhanced.code \in {"PIPELINE_ERROR", "JOB_FAILED"}

\* MediaX.activeJobs holds a unit from createJob until the unit emits 'done'
\* or 'error': the units of the pipeline that have emitted neither, those
\* of earlier runs included.
activeJobs ==
  Cardinality({i \in 1..Len(unit) : unit[i] \in ActiveUnit \cup {"silent"}}) + stale

\* C40: while no run of the pipeline is in progress none of its units is
\* counted as active by the MediaX instance, however the last run ended.
C40_NoActiveUnitAfterRun == ~isRunning => activeJobs = 0

\* ------------------------------------------------------ claims on progress
\* C9: the percents a Job emits for samples with strictly increasing
\* timecodes never decrease, differ by at least 1 from one emission to the
\* next, and are at most 100; for the fluent-ffmpeg Job and the spawn Job.
C9_ProgressSteps ==
  /\ \A k \in 1..Len(emitted) :
       /\ emitted[k] <= 10000
       /\ k > 1 => emitted[k] - emitted[k - 1] >= 100
  /\ \A k \in 1..Len(progressed) :
       /\ progressed[k] <= 100 * PercentDen
       /\ k > 1 => progressed[k] - progressed[k - 1] >= PercentDen


\* C21: the workflow progress of step index (0-based) at step percent p is
\* ((index + p/100) / total) * 100: it lies between 100*index/total and
\* 100*(index+1)/total, never exceeds 100 and never decreases over a run;
\* step 2 of 3 at 50 percent reports 50.
C21_OverallProgress ==
  /\ \A k \in 1..Len(overall) :
       LET e == overall[k] IN
       /\ e.at.num * e.total * e.d = (100 * e.index * e.d + e.percent) * e.at.den
       /\ 100 * e.index * e.at.den <= e.at.num * e.total
       /\ e.at.num * e.total <= 100 * (e.index + 1) * e.at.den
       /\ e.at.num <= 100 * e.at.den
       /\ (e.index = 1 /\ e.total = 3 /\ 2 * e.percent = 100 * e.d) =>
            e.at.num = 50 * e.at.den
  /\ Len(overall) = 2 =>
       overall[1].at.num * overall[2].at.den <= overall[2].at.num * overall[1].at.den

C21_Witness ==
  /\ Len(overall) = 2 /\ overall[1].index = 0
  /\ overall[2].index = 1 /\ overall[2].total = 3
  /\ 2 * overall[2].percent = 100 * overall[2].d


\* C31: every progress notification of a Job precedes its terminal
\* notification: once the Job has emitted 'done' or 'error' (a cancellation
\* is an 'error') it emits no progress.
C31_ProgressBeforeTerminal ==
  [][progressed' # progressed => (nDone[1] = 0 /\ nError[1] = 0)]_vars

\* C32: a percent is emitted only when it is known: a Job without a duration
\* estimate emits no progress notification (the notification always carries
\* a percent); for the fluent-ffmpeg Job and the spawn Job.
C32_PercentOnlyWhenKnown ==
  /\ durationSeconds = 0 => emitted = <<>>
  /\ durationSec = 0 => progressed = <<>>

====
